---- MODULE Spec2Model ----
(***************************************************************************)
(* Model of the cube-state recognition backend:                            *)
(*   backend/color_recognition.py  COLOR_RANGES, recognize_face_colors,    *)
(*                                 analyze_color_fallback,                 *)
(*                                 fix_color_distribution                  *)
(*   backend/solver.py             solve_cube_from_images,                 *)
(*                                 validate_and_fix_cube_state             *)
(***************************************************************************)
EXTENDS Integers, Sequences, FiniteSets, TLC

VARIABLES
    avg_color,     \* recognize_face_colors: the averaged HSV sample of one cell
    matched_color, \* recognize_face_colors: matched_color ("None" for None)
    cls_pc,        \* "sample" | "matched" | "fallback" ("idle" elsewhere)
    face_in,       \* fix_color_distribution: the argument face_colors
    face_out,      \* its return value
    face_pc,       \* "raw" | "fixed" ("idle" elsewhere)
    state_in,      \* validate_and_fix_cube_state: the argument cube_state
    state_once,    \* its return value
    state_twice,   \* the return value of a second call on state_once
    rep_pc,        \* "input" | "once" | "twice" ("idle" elsewhere)
    image_paths,   \* solve_cube_from_images: the keys of the argument dict
    cube_state,    \* solve_cube_from_images: cube_state
    invoked,       \* the faces recognize_face_colors has been called for
    pc             \* "loop" | "returned" | "KeyError" | "ValueError" ("idle")

vars == <<avg_color, matched_color, cls_pc, face_in, face_out, face_pc,
          state_in, state_once, state_twice, rep_pc,
          image_paths, cube_state, invoked, pc>>

ClassifierIdle ==
    avg_color = <<0, 0, 0>> /\ matched_color = "None" /\ cls_pc = "idle"

FaceIdle == face_in = <<>> /\ face_out = <<>> /\ face_pc = "idle"

RepairIdle ==
    state_in = <<>> /\ state_once = <<>> /\ state_twice = <<>> /\ rep_pc = "idle"

SolveIdle ==
    image_paths = {} /\ cube_state = <<>> /\ invoked = <<>> /\ pc = "idle"

classifier_vars == <<avg_color, matched_color, cls_pc>>
face_vars == <<face_in, face_out, face_pc>>
repair_vars == <<state_in, state_once, state_twice, rep_pc>>
solve_vars == <<image_paths, cube_state, invoked, pc>>

(***************************************************************************)
(* Symbols                                                                 *)
(***************************************************************************)

\* solver.py:68  expected_colors (also face_order, solver.py:41, and
\* target_colors, color_recognition.py:147)
expected_colors == <<"U", "R", "F", "D", "L", "B">>

Colors == {expected_colors[k] : k \in DOMAIN expected_colors}

\* A character outside the six colours: validate_and_fix_cube_state takes any str.
Foreign == "X"

Symbols == Colors \cup {Foreign}

\* Number of occurrences of c in seq (the counting loops, e.g. solver.py:61-63)
CountOf(seq, c) == Cardinality({i \in DOMAIN seq : seq[i] = c})

(***************************************************************************)
(* validate_and_fix_cube_state  (solver.py:55-127)                         *)
(***************************************************************************)

\* solver.py:57  the required length of a cube state
StateLen == 54

\* solver.py:74  the count every colour must have
PerColor == 9

\* solver.py:61-71  color_counts after the counting loop and the zero fill.
\* The dict's keys are the symbols present plus the six expected colours; a
\* symbol that is no key is given 0 here and is never read.
InitialCounts(state) == [c \in Symbols |-> CountOf(state, c)]

CountKeys(state) == Colors \cup {state[i] : i \in DOMAIN state}

\* solver.py:74
needs_fixing(state) ==
    LET color_counts == InitialCounts(state)
    IN  \E c \in CountKeys(state) : color_counts[c] # PerColor

\* solver.py:90-91  the first expected colour whose count is below nine
\* (0 when there is none: the inner for loop ends without a break)
FirstUnder(color_counts) ==
    LET under == {k \in DOMAIN expected_colors :
                      color_counts[expected_colors[k]] < PerColor}
    IN  IF under = {} THEN 0
        ELSE CHOOSE k \in under : \A j \in under : k <= j

\* ReplaceExcess without line 94: the replacement colour is never credited
RECURSIVE ReplaceExcess_NoCredit(_, _, _, _, _)
ReplaceExcess_NoCredit(cube_list, color_counts, target_color, excess, i) ==
    IF i > Len(cube_list)
    THEN [cube_list |-> cube_list, color_counts |-> color_counts]
    ELSE IF cube_list[i] = target_color /\ excess > 0
              /\ FirstUnder(color_counts) # 0
         THEN ReplaceExcess_NoCredit(
                  [cube_list EXCEPT ![i] = expected_colors[FirstUnder(color_counts)]],
                  [color_counts EXCEPT ![target_color] = @ - 1],
                  target_color, excess - 1, i + 1)
         ELSE ReplaceExcess_NoCredit(cube_list, color_counts, target_color,
                                     excess, i + 1)

\* solver.py:87-96  the scan of a colour with too many stickers
RECURSIVE ReplaceExcess(_, _, _, _, _)
ReplaceExcess(cube_list, color_counts, target_color, excess, i) ==
    IF i > Len(cube_list)
    THEN [cube_list |-> cube_list, color_counts |-> color_counts]
    ELSE IF cube_list[i] = target_color /\ excess > 0
              /\ FirstUnder(color_counts) # 0
         THEN LET replacement_color == expected_colors[FirstUnder(color_counts)]
              IN  ReplaceExcess(
                      [cube_list EXCEPT ![i] = replacement_color],
                      [color_counts EXCEPT ![target_color] = @ - 1,
                                           ![replacement_color] = @ + 1],
                      target_color, excess - 1, i + 1)
         ELSE ReplaceExcess(cube_list, color_counts, target_color, excess, i + 1)

\* FillNeeded without line 109: the colour a sticker is taken from is never
\* debited
RECURSIVE FillNeeded_NoDebit(_, _, _, _, _)
FillNeeded_NoDebit(cube_list, color_counts, target_color, needed, i) ==
    IF i > Len(cube_list) \/ needed <= 0
    THEN [cube_list |-> cube_list, color_counts |-> color_counts]
    ELSE IF cube_list[i] \in Colors /\ color_counts[cube_list[i]] > PerColor
         THEN FillNeeded_NoDebit(
                  [cube_list EXCEPT ![i] = target_color],
                  [color_counts EXCEPT ![target_color] = @ + 1],
                  target_color, needed - 1, i + 1)
         ELSE FillNeeded_NoDebit(cube_list, color_counts, target_color,
                                 needed, i + 1)

\* solver.py:101-112  the scan for a colour with too few stickers
RECURSIVE FillNeeded(_, _, _, _, _)
FillNeeded(cube_list, color_counts, target_color, needed, i) ==
    IF i > Len(cube_list) \/ needed <= 0
    THEN [cube_list |-> cube_list, color_counts |-> color_counts]
    ELSE IF cube_list[i] \in Colors /\ color_counts[cube_list[i]] > PerColor
         THEN FillNeeded(
                  [cube_list EXCEPT ![i] = target_color],
                  [color_counts EXCEPT ![cube_list[i]] = @ - 1,
                                       ![target_color] = @ + 1],
                  target_color, needed - 1, i + 1)
         ELSE FillNeeded(cube_list, color_counts, target_color, needed, i + 1)

\* solver.py:82-112  one iteration of the loop over expected_colors
FixTarget(st, target_color) ==
    LET current_count == st.color_counts[target_color]
    IN  IF current_count > PerColor
        THEN ReplaceExcess(st.cube_list, st.color_counts, target_color,
                           current_count - PerColor, 1)
        ELSE IF current_count < PerColor
             THEN FillNeeded(st.cube_list, st.color_counts, target_color,
                             PerColor - current_count, 1)
             ELSE st

\* solver.py:81  for target_color in expected_colors
RECURSIVE Redistribute(_, _)
Redistribute(st, k) ==
    IF k > Len(expected_colors) THEN st
    ELSE Redistribute(FixTarget(st, expected_colors[k]), k + 1)

\* The stickers of a state arranged colour after colour
SortedState(state) ==
    LET all == expected_colors \o <<Foreign>>
        Upto(k) == Cardinality({i \in DOMAIN state :
                                   \E j \in 1..k : state[i] = all[j]})
    IN  [i \in 1..Len(state) |->
            all[CHOOSE k \in DOMAIN all : Upto(k - 1) < i /\ i <= Upto(k)]]

\* validate_and_fix_cube_state returning the state rebuilt colour after colour
\* when nothing needs fixing
validate_rebuilds(state) ==
    IF needs_fixing(state)
    THEN Redistribute([cube_list |-> state,
                       color_counts |-> InitialCounts(state)], 1).cube_list
    ELSE SortedState(state)

\* solver.py:55-127 (the length check of line 57 is the guard of Validate)
validate_and_fix_cube_state(state) ==
    IF needs_fixing(state)
    THEN Redistribute([cube_list |-> state,
                       color_counts |-> InitialCounts(state)], 1).cube_list
    ELSE state

(***************************************************************************)
(* Inputs of validate_and_fix_cube_state                                   *)
(***************************************************************************)

\* Longest repeating pattern of symbols a periodic input is made of
MaxPeriod == 4

Periodic(pat) == [i \in 1..StateLen |-> pat[((i - 1) % Len(pat)) + 1]]

\* The solved cube, face after face
Solved == [i \in 1..StateLen |-> expected_colors[((i - 1) \div PerColor) + 1]]

BalancedBases == {Solved, Periodic(expected_colors),
                  Periodic(<<"B", "L", "D", "F", "R", "U">>)}

(***************************************************************************)
(* Specification of validate_and_fix_cube_state applied once and twice     *)
(***************************************************************************)

InitRepair ==
    /\ \/ \E p \in 1..MaxPeriod : \E pat \in [1..p -> Symbols] :
              state_in = Periodic(pat)
       \/ \E b \in BalancedBases : \E i \in 1..StateLen : \E c \in Symbols :
              state_in = [b EXCEPT ![i] = c]
    /\ state_once = <<>>
    /\ state_twice = <<>>
    /\ rep_pc = "input"
    /\ ClassifierIdle /\ FaceIdle /\ SolveIdle

Validate ==
    /\ rep_pc = "input"
    /\ Len(state_in) = StateLen
    /\ state_once' = validate_and_fix_cube_state(state_in)
    /\ rep_pc' = "once"
    /\ UNCHANGED <<state_in, state_twice>>
    /\ UNCHANGED <<classifier_vars, face_vars, solve_vars>>

ValidateAgain ==
    /\ rep_pc = "once"
    /\ Len(state_once) = StateLen
    /\ state_twice' = validate_and_fix_cube_state(state_once)
    /\ rep_pc' = "twice"
    /\ UNCHANGED <<state_in, state_once>>
    /\ UNCHANGED <<classifier_vars, face_vars, solve_vars>>

NextRepair == Validate \/ ValidateAgain

SpecRepair == InitRepair /\ [][NextRepair]_vars

(***************************************************************************)
(* The sticker classifier  (color_recognition.py:4-11, 37-63, 85-129)      *)
(* An HSV sample is <<h, s, v>>, the uint8 triple avg_color.               *)
(***************************************************************************)

\* color_recognition.py:4-11, in the dict's insertion order
COLOR_RANGES == <<
    [code |-> "U", lower |-> <<0, 0, 180>>,   upper |-> <<180, 30, 255>>],
    [code |-> "R", lower |-> <<0, 120, 70>>,  upper |-> <<10, 255, 255>>],
    [code |-> "F", lower |-> <<40, 120, 70>>, upper |-> <<80, 255, 255>>],
    [code |-> "D", lower |-> <<15, 120, 70>>, upper |-> <<35, 255, 255>>],
    [code |-> "L", lower |-> <<5, 120, 70>>,  upper |-> <<20, 255, 255>>],
    [code |-> "B", lower |-> <<90, 120, 70>>, upper |-> <<130, 255, 255>> ] >>

Abs(x) == IF x < 0 THEN -x ELSE x

Min2(a, b) == IF a <= b THEN a ELSE b

\* color_recognition.py:45  cv2.inRange: every channel within [lower, upper]
InRange(hsv, range) ==
    \A ch \in 1..3 : range.lower[ch] <= hsv[ch] /\ hsv[ch] <= range.upper[ch]

\* color_recognition.py:47-55  score = 1 / (1 + hue_diff/180 + sat_diff/255 +
\* val_diff/255), kept as the exact fraction num/den.  The range centres are
\* halves, so every difference is taken doubled; over the common denominator
\* 2*180*255/15 = 6120 the three terms are 17*hue, 12*sat and 12*val.
Score(hsv, range) ==
    LET hue_off == Abs(2 * hsv[1] - (range.lower[1] + range.upper[1]))
        hue_diff == Min2(hue_off, 360 - hue_off)
        sat_diff == Abs(2 * hsv[2] - (range.lower[2] + range.upper[2]))
        val_diff == Abs(2 * hsv[3] - (range.lower[3] + range.upper[3]))
    IN  [num |-> 6120,
         den |-> 6120 + 17 * hue_diff + 12 * sat_diff + 12 * val_diff]

\* color_recognition.py:57  score > best_match_score
ScoreGreater(score, best) == score.num * best.den > best.num * score.den

\* Better without the comparison of scores: the first range in range is kept
Better_FirstWins(score, best_match_score) == best_match_score.num = 0

\* color_recognition.py:57-59  whether a range in range takes over the match
Better(score, best_match_score) == ScoreGreater(score, best_match_score)

\* color_recognition.py:37-59  the loop over COLOR_RANGES.items()
RECURSIVE MatchRange(_, _, _, _)
MatchRange(hsv, matched, best_match_score, k) ==
    IF k > Len(COLOR_RANGES) THEN matched
    ELSE IF InRange(hsv, COLOR_RANGES[k])
              /\ Better(Score(hsv, COLOR_RANGES[k]), best_match_score)
         THEN MatchRange(hsv, COLOR_RANGES[k].code,
                         Score(hsv, COLOR_RANGES[k]), k + 1)
         ELSE MatchRange(hsv, matched, best_match_score, k + 1)

\* The hue arcs of analyze_color_fallback, in the order of each if/elif chain.
\* An arc with ends holds the hues below lo or above hi (red, at both ends of
\* the hue axis); any other arc holds the hues strictly between lo and hi.
\* color_recognition.py:95-98
BrightArcs == <<
    [ends |-> TRUE,  lo |-> 15,  hi |-> 165, color |-> "R"],
    [ends |-> FALSE, lo |-> 15,  hi |-> 35,  color |-> "D"] >>

\* color_recognition.py:104-113
MediumArcs == <<
    [ends |-> TRUE,  lo |-> 15,  hi |-> 165, color |-> "R"],
    [ends |-> FALSE, lo |-> 15,  hi |-> 35,  color |-> "D"],
    [ends |-> FALSE, lo |-> 35,  hi |-> 70,  color |-> "F"],
    [ends |-> FALSE, lo |-> 70,  hi |-> 130, color |-> "B"],
    [ends |-> FALSE, lo |-> 130, hi |-> 165, color |-> "L"] >>

\* color_recognition.py:117-126
HighArcs == <<
    [ends |-> TRUE,  lo |-> 10,  hi |-> 170, color |-> "R"],
    [ends |-> FALSE, lo |-> 10,  hi |-> 30,  color |-> "L"],
    [ends |-> FALSE, lo |-> 30,  hi |-> 80,  color |-> "F"],
    [ends |-> FALSE, lo |-> 80,  hi |-> 130, color |-> "B"],
    [ends |-> FALSE, lo |-> 130, hi |-> 170, color |-> "R"] >>

InArc(h, arc) ==
    IF arc.ends THEN h < arc.lo \/ h > arc.hi
    ELSE arc.lo < h /\ h < arc.hi

\* The first branch of an if/elif chain that holds h (0: none does)
FirstArc(h, arcs) ==
    LET holding == {k \in DOMAIN arcs : InArc(h, arcs[k])}
    IN  IF holding = {} THEN 0
        ELSE CHOOSE k \in holding : \A j \in holding : k <= j

\* color_recognition.py:85-129
analyze_color_fallback(hsv_color) ==
    LET h == hsv_color[1]
        s == hsv_color[2]
        v == hsv_color[3]
    IN  IF s < 50 THEN "U"
        ELSE IF v > 200
             THEN IF FirstArc(h, BrightArcs) # 0
                  THEN BrightArcs[FirstArc(h, BrightArcs)].color
                  ELSE "U"
             ELSE IF 40 < s /\ s < 120 /\ FirstArc(h, MediumArcs) # 0
                  THEN MediumArcs[FirstArc(h, MediumArcs)].color
                  ELSE IF s > 120 /\ FirstArc(h, HighArcs) # 0
                       THEN HighArcs[FirstArc(h, HighArcs)].color
                       ELSE "U"

\* color_recognition.py:37-63  the colour one sample is classified as
classify(hsv) ==
    LET matched == MatchRange(hsv, "None", [num |-> 0, den |-> 1], 1)
    IN  IF matched = "None" THEN analyze_color_fallback(hsv) ELSE matched

(***************************************************************************)
(* Specification of the classifier on one sample                           *)
(***************************************************************************)

\* How far around each threshold of saturation and value the samples go
Margin == 1

Near(edges, lo, hi) ==
    {e + d : e \in edges, d \in -Margin..Margin} \cap (lo..hi)

\* The saturation thresholds of COLOR_RANGES and analyze_color_fallback
SatSamples == Near({0, 30, 40, 50, 120, 255}, 0, 255)

\* The value thresholds of COLOR_RANGES and analyze_color_fallback
ValSamples == Near({0, 70, 180, 200, 255}, 0, 255)

\* Every hue OpenCV gives an 8-bit image
HueSamples == 0..179

InitClassify ==
    /\ avg_color \in HueSamples \X SatSamples \X ValSamples
    /\ matched_color = "None"
    /\ cls_pc = "sample"
    /\ FaceIdle /\ RepairIdle /\ SolveIdle

\* color_recognition.py:37-59
MatchRanges ==
    /\ cls_pc = "sample"
    /\ matched_color' = MatchRange(avg_color, "None", [num |-> 0, den |-> 1], 1)
    /\ cls_pc' = "matched"
    /\ UNCHANGED avg_color
    /\ UNCHANGED <<face_vars, repair_vars, solve_vars>>

\* color_recognition.py:62-63
Fallback ==
    /\ cls_pc = "matched"
    /\ matched_color = "None"
    /\ matched_color' = analyze_color_fallback(avg_color)
    /\ cls_pc' = "fallback"
    /\ UNCHANGED avg_color
    /\ UNCHANGED <<face_vars, repair_vars, solve_vars>>

NextClassify == MatchRanges \/ Fallback

SpecClassify == InitClassify /\ [][NextClassify]_vars

(***************************************************************************)
(* Python dicts (color_counts, final_counts of fix_color_distribution) are *)
(* kept as the sequence of their items <<key, value>> in insertion order,  *)
(* the order items(), max() and min() go through them.                     *)
(***************************************************************************)

DictHas(d, key) == \E j \in DOMAIN d : d[j][1] = key

DictIndex(d, key) == CHOOSE j \in DOMAIN d : d[j][1] = key

\* d.get(key, default)
DictGet(d, key, default) ==
    IF DictHas(d, key) THEN d[DictIndex(d, key)][2] ELSE default

\* d[key] = value
DictSet(d, key, value) ==
    IF DictHas(d, key) THEN [d EXCEPT ![DictIndex(d, key)] = <<key, value>>]
    ELSE Append(d, <<key, value>>)

\* color_recognition.py:134-136 and 167-169  the counting loop
RECURSIVE CountColors(_, _, _)
CountColors(face_colors, counts, i) ==
    IF i > Len(face_colors) THEN counts
    ELSE CountColors(face_colors,
                     DictSet(counts, face_colors[i],
                             DictGet(counts, face_colors[i], 0) + 1),
                     i + 1)

\* color_recognition.py:142  max(color_counts.items(), key=lambda x: x[1]):
\* the first item holding the greatest count
MostCommon(counts) ==
    counts[CHOOSE j \in DOMAIN counts :
               \A m \in DOMAIN counts :
                   /\ counts[m][2] <= counts[j][2]
                   /\ (counts[m][2] = counts[j][2] => j <= m)]

\* color_recognition.py:177  min(final_counts.items(), key=lambda x: x[1]):
\* the first item holding the least count
LeastCommon(counts) ==
    counts[CHOOSE j \in DOMAIN counts :
               \A m \in DOMAIN counts :
                   /\ counts[j][2] <= counts[m][2]
                   /\ (counts[m][2] = counts[j][2] => j <= m)]

(***************************************************************************)
(* fix_color_distribution  (color_recognition.py:131-185)                  *)
(***************************************************************************)

\* color_recognition.py:22  grid_size
grid_size == 3

FaceLen == grid_size * grid_size

\* target_colors with white spelt by its colour instead of its face
target_colors_W == <<"W", "R", "F", "D", "L", "B">>

\* color_recognition.py:147
target_colors == <<"U", "R", "F", "D", "L", "B">>

\* Suspicious with the test written >= 6
Suspicious_From6(count) == count >= 6

\* color_recognition.py:143  more than 6 of the same colour is suspicious
Suspicious(count) == count > 6

\* color_recognition.py:150  way too many of one colour
WayTooMany(count) == count > 7

\* color_recognition.py:152  leave only 3 of the most common
excess_of(count) == count - 3

\* Underrepresented with the test written <= 2
Underrepresented_Upto2(count) == count <= 2

\* color_recognition.py:159  a replacement colour is underrepresented
Underrepresented(count) == count < 2

\* OverLimit with the limit of line 150 in place of 5
OverLimit_7(count) == count > 7

\* color_recognition.py:172  the final check's limit
OverLimit(count) == count > 5

\* color_recognition.py:173
final_excess(count) == count - 4

\* color_recognition.py:153
replacement_colors(most_common) ==
    SelectSeq(target_colors, LAMBDA c : c # most_common)

\* color_recognition.py:158-159  the first replacement colour counted below 2
\* (0 when there is none)
FirstScarce(color_counts, most_common) ==
    LET reps == replacement_colors(most_common)
        scarce == {k \in DOMAIN reps :
                       Underrepresented(DictGet(color_counts, reps[k], 0))}
    IN  IF scarce = {} THEN 0
        ELSE CHOOSE k \in scarce : \A j \in scarce : k <= j

\* color_recognition.py:155-164  the aggressive redistribution
RECURSIVE SpreadExcess(_, _, _, _, _)
SpreadExcess(face_colors, color_counts, most_common, excess_count, i) ==
    IF i > Len(face_colors) THEN face_colors
    ELSE IF face_colors[i] = most_common /\ excess_count > 0
         THEN LET k == FirstScarce(color_counts, most_common)
                  replacement == replacement_colors(most_common)[k]
              IN  IF k # 0
                  THEN SpreadExcess(
                           [face_colors EXCEPT ![i] = replacement],
                           DictSet(DictSet(color_counts, replacement,
                                       DictGet(color_counts, replacement, 0) + 1),
                                   most_common,
                                   DictGet(color_counts, most_common, 0) - 1),
                           most_common, excess_count - 1, i + 1)
                  ELSE SpreadExcess(face_colors, color_counts, most_common,
                                    excess_count - 1, i + 1)
         ELSE SpreadExcess(face_colors, color_counts, most_common,
                           excess_count, i + 1)

\* color_recognition.py:174-182  the scan that trims one colour
RECURSIVE TrimColor(_, _, _, _, _)
TrimColor(face_colors, final_counts, color, excess, i) ==
    IF i > Len(face_colors)
    THEN [face_colors |-> face_colors, final_counts |-> final_counts]
    ELSE IF face_colors[i] = color /\ excess > 0
              /\ LeastCommon(final_counts)[1] # color
         THEN LET least_common == LeastCommon(final_counts)
              IN  TrimColor(
                      [face_colors EXCEPT ![i] = least_common[1]],
                      DictSet(DictSet(final_counts, least_common[1],
                                      least_common[2] + 1),
                              color, DictGet(final_counts, color, 0) - 1),
                      color, excess - 1, i + 1)
         ELSE TrimColor(face_colors, final_counts, color, excess, i + 1)

\* color_recognition.py:171-182  for color, count in final_counts.items():
\* the k-th item is read when the loop reaches it
RECURSIVE FinalCheck(_, _, _)
FinalCheck(face_colors, final_counts, k) ==
    IF k > Len(final_counts) THEN face_colors
    ELSE LET color == final_counts[k][1]
             count == final_counts[k][2]
         IN  IF OverLimit(count)
             THEN LET r == TrimColor(face_colors, final_counts, color,
                                     final_excess(count), 1)
                  IN  FinalCheck(r.face_colors, r.final_counts, k + 1)
             ELSE FinalCheck(face_colors, final_counts, k + 1)

\* color_recognition.py:131-185
fix_color_distribution(face_colors) ==
    LET color_counts == CountColors(face_colors, <<>>, 1)
        most_common == MostCommon(color_counts)
    IN  IF Len(color_counts) > 1 /\ Suspicious(most_common[2])
        THEN LET spread ==
                     IF WayTooMany(most_common[2])
                     THEN SpreadExcess(face_colors, color_counts, most_common[1],
                                       excess_of(most_common[2]), 1)
                     ELSE face_colors
             IN  FinalCheck(spread, CountColors(spread, <<>>, 1), 1)
        ELSE face_colors

(***************************************************************************)
(* Specification of fix_color_distribution on raw faces                    *)
(***************************************************************************)

\* Most stickers of a raw face that differ from its dominant colour
MaxOff == 3

\* The face that shows `dominant` except at the cells of `off`
RawFace(dominant, off) ==
    [i \in 1..FaceLen |-> IF i \in DOMAIN off THEN off[i] ELSE dominant]

InitFace ==
    /\ \E dominant \in Colors : \E cells \in SUBSET (1..FaceLen) :
           /\ Cardinality(cells) <= MaxOff
           /\ \E off \in [cells -> Colors \ {dominant}] :
                  face_in = RawFace(dominant, off)
    /\ face_out = <<>>
    /\ face_pc = "raw"
    /\ ClassifierIdle /\ RepairIdle /\ SolveIdle

FixDistribution ==
    /\ face_pc = "raw"
    /\ face_out' = fix_color_distribution(face_in)
    /\ face_pc' = "fixed"
    /\ UNCHANGED face_in
    /\ UNCHANGED <<classifier_vars, repair_vars, solve_vars>>

NextFace == FixDistribution

SpecFace == InitFace /\ [][NextFace]_vars

(***************************************************************************)
(* solve_cube_from_images  (solver.py:38-53) over recognize_face_colors    *)
(* (color_recognition.py:13-83).  An image is the sequence of the nine     *)
(* averaged HSV samples of its cells, row-major.                           *)
(***************************************************************************)

\* solver.py:41
face_order == <<"U", "R", "F", "D", "L", "B">>

\* The HSV range of a colour
RangeOf(code) ==
    COLOR_RANGES[CHOOSE k \in DOMAIN COLOR_RANGES : COLOR_RANGES[k].code = code]

\* The sample at the centre of a colour's range: a well lit sticker
CanonicalHSV(code) ==
    [ch \in 1..3 |-> (RangeOf(code).lower[ch] + RangeOf(code).upper[ch]) \div 2]

\* A face whose nine stickers show its own colour
SolidImage(face) == [i \in 1..FaceLen |-> CanonicalHSV(face)]

\* The same face with a white glare on its first cell
GlareImage(face) == [SolidImage(face) EXCEPT ![1] = <<0, 0, 255>>]

\* The same face in poor light: every value below the ranges
DimImage(face) ==
    [i \in 1..FaceLen |-> [CanonicalHSV(face) EXCEPT ![3] = 40]]

Images(face) == {SolidImage(face), GlareImage(face), DimImage(face)}

\* color_recognition.py:25-83  (the image loaded: lines 14-16 are the guard
\* of RecognizeFace and ImageNotLoaded)
recognize_face_colors(image) ==
    fix_color_distribution([i \in 1..FaceLen |-> classify(image[i])])

Init ==
    /\ image_paths \in SUBSET Colors
    /\ cube_state = <<>>
    /\ invoked = <<>>
    /\ pc = "loop"
    /\ ClassifierIdle /\ FaceIdle /\ RepairIdle

\* The face the loop of solver.py:43 is at (past the end: Len(face_order) + 1)
NextFaceIndex == Len(invoked) + 1

\* solver.py:43-45  one iteration, the image readable
RecognizeFace ==
    /\ pc = "loop"
    /\ NextFaceIndex <= Len(face_order)
    /\ face_order[NextFaceIndex] \in image_paths
    /\ \E image \in Images(face_order[NextFaceIndex]) :
           cube_state' = cube_state \o recognize_face_colors(image)
    /\ invoked' = Append(invoked, face_order[NextFaceIndex])
    /\ UNCHANGED <<image_paths, pc>>
    /\ UNCHANGED <<classifier_vars, face_vars, repair_vars>>

\* solver.py:44 into color_recognition.py:14-16  cv2.imread gives None
ImageNotLoaded ==
    /\ pc = "loop"
    /\ NextFaceIndex <= Len(face_order)
    /\ face_order[NextFaceIndex] \in image_paths
    /\ invoked' = Append(invoked, face_order[NextFaceIndex])
    /\ pc' = "ValueError"
    /\ UNCHANGED <<image_paths, cube_state>>
    /\ UNCHANGED <<classifier_vars, face_vars, repair_vars>>

\* solver.py:44  image_paths[face] of a face that is no key
MissingFace ==
    /\ pc = "loop"
    /\ NextFaceIndex <= Len(face_order)
    /\ face_order[NextFaceIndex] \notin image_paths
    /\ pc' = "KeyError"
    /\ UNCHANGED <<image_paths, cube_state, invoked>>
    /\ UNCHANGED <<classifier_vars, face_vars, repair_vars>>

\* solver.py:48-53
ValidateState ==
    /\ pc = "loop"
    /\ NextFaceIndex > Len(face_order)
    /\ Len(cube_state) = StateLen
    /\ cube_state' = validate_and_fix_cube_state(cube_state)
    /\ pc' = "returned"
    /\ UNCHANGED <<image_paths, invoked>>
    /\ UNCHANGED <<classifier_vars, face_vars, repair_vars>>

Next == RecognizeFace \/ ImageNotLoaded \/ MissingFace \/ ValidateState

Spec == Init /\ [][Next]_vars

(***************************************************************************)
(* Properties                                                              *)
(***************************************************************************)

NineEach(s) == \A c \in Colors : CountOf(s, c) = PerColor

OnlyColors(s) == \A i \in DOMAIN s : s[i] \in Colors

Distinct(s) == {s[i] : i \in DOMAIN s}

\* The count of the most frequent symbol of a non-empty sequence
MaxCount(s) == CHOOSE n \in 1..Len(s) :
    /\ \E c \in Distinct(s) : CountOf(s, c) = n
    /\ \A c \in Distinct(s) : CountOf(s, c) <= n

\* The repair of fix_color_distribution triggers
Triggered(face) == Cardinality(Distinct(face)) >= 2 /\ MaxCount(face) > 6

\* C1: for every 54-symbol input made only of U,R,F,D,L,B,
\* validate_and_fix_cube_state returns a 54-symbol string in which each of the
\* six symbols occurs exactly nine times.
C1_NineOfEach ==
    (rep_pc \in {"once", "twice"} /\ Len(state_in) = StateLen
         /\ OnlyColors(state_in))
        => (Len(state_once) = StateLen /\ NineEach(state_once))

\* An input skewed over three or more colours, one of them on half the
\* stickers, has been repaired to nine of each.
C1_Witness ==
    /\ rep_pc = "once"
    /\ OnlyColors(state_in)
    /\ Cardinality({c \in Colors : CountOf(state_in, c) # PerColor}) >= 3
    /\ \E c \in Colors : CountOf(state_in, c) >= 27
    /\ NineEach(state_once)

\* C2: when the mapping lacks one of the six face labels, the call fails
\* before any classification begins: at the failure recognize_face_colors has
\* been invoked for no face.
C2_FailsBeforeAnyClassification ==
    (pc = "KeyError" /\ Cardinality(Colors \ image_paths) = 1)
        => invoked = <<>>

\* C3: validate_and_fix_cube_state returns its input unchanged, position for
\* position, whenever the input already holds exactly nine of each colour.
C3_BalancedUnchanged ==
    (rep_pc \in {"once", "twice"} /\ Len(state_in) = StateLen
         /\ NineEach(state_in))
        => state_once = state_in

\* A scrambled input with nine of each colour has been returned as it was.
C3_Witness ==
    /\ rep_pc = "once"
    /\ NineEach(state_in)
    /\ state_in # Solved
    /\ state_once = state_in

\* C4: validate_and_fix_cube_state is idempotent: on every input of length
\* 54 a second application returns what the first returned.
C4_Idempotent ==
    (rep_pc = "twice" /\ Len(state_in) = StateLen) => state_twice = state_once

\* An input that holds a foreign symbol was changed by the first application
\* and left alone by the second.
C4_Witness ==
    /\ rep_pc = "twice"
    /\ \E i \in DOMAIN state_in : state_in[i] = Foreign
    /\ state_once # state_in
    /\ state_twice = state_once

\* C5: for every 9-symbol face over the six colours, fix_color_distribution
\* returns a sequence of length 9 whose every element is one of the six.
C5_NineOfTheSix ==
    face_pc = "fixed" => (Len(face_out) = 9 /\ OnlyColors(face_out))

\* A face the repair altered came back with nine of the six colours.
C5_Witness ==
    /\ face_pc = "fixed"
    /\ face_out # face_in
    /\ Len(face_out) = 9
    /\ OnlyColors(face_out)

\* C6: fix_color_distribution returns the face unchanged whenever it holds a
\* single symbol nine times or its most frequent symbol occurs at most 6
\* times; it alters a face only when at least two distinct symbols are present
\* and one of them occurs more than 6 times.
C6_UnchangedUnlessSkewed ==
    face_pc = "fixed" =>
        /\ (Cardinality(Distinct(face_in)) = 1 \/ MaxCount(face_in) <= 6)
               => face_out = face_in
        /\ face_out # face_in => Triggered(face_in)

\* A face whose most frequent colour occurs exactly 6 times came back as it
\* was.
C6_Witness ==
    /\ face_pc = "fixed"
    /\ MaxCount(face_in) = 6
    /\ Cardinality(Distinct(face_in)) >= 2
    /\ face_out = face_in

\* The colours a face holds eight times
EightOf(face) == {c \in Colors : CountOf(face, c) = 8}

\* C7: for every face that holds one symbol M eight times and one other
\* symbol once, fix_color_distribution leaves exactly 3 occurrences of M (5
\* replacements), every freed position receives a symbol that occurred fewer
\* than 2 times on the face at the moment of replacement, and no symbol other
\* than M ends with more than 2 occurrences.
C7_EightToThree ==
    (face_pc = "fixed" /\ EightOf(face_in) # {}) =>
        \A M \in EightOf(face_in) :
            LET freed == {i \in 1..9 : face_in[i] = M /\ face_out[i] # M}
                \* the count of c when position i is reached: the stickers
                \* that showed c from the start and those freed before i
                Held(c, i) == Cardinality(
                    {j \in 1..9 : \/ face_in[j] = c
                                  \/ (j \in freed /\ j < i /\ face_out[j] = c)})
            IN  /\ CountOf(face_out, M) = 3
                /\ CountOf(face_out, M) < 7
                /\ Cardinality(freed) = 5
                /\ \A i \in 1..9 : face_in[i] # M => face_out[i] = face_in[i]
                /\ \A i \in freed : Held(face_out[i], i) < 2
                /\ \A c \in Colors \ {M} : CountOf(face_out, c) <= 2

\* The face of eight R and one U (in its centre) came back with three R.
C7_Witness ==
    /\ face_pc = "fixed"
    /\ face_in = [i \in 1..9 |-> IF i = 5 THEN "U" ELSE "R"]
    /\ CountOf(face_out, "R") = 3
    /\ CountOf(face_out, "U") = 2

\* The ranges of COLOR_RANGES that hold a sample
InRangeSet(hsv) == {k \in DOMAIN COLOR_RANGES : InRange(hsv, COLOR_RANGES[k])}

\* C8: whenever the sample lies inside at least one range of COLOR_RANGES,
\* the classifier returns the in-range symbol with the greatest match score,
\* among in-range symbols of equal score the one earliest in U,R,F,D,L,B; a
\* sample inside exactly one range is classified as that colour.
C8_BestInRange ==
    (cls_pc = "matched" /\ InRangeSet(avg_color) # {}) =>
        \E k \in InRangeSet(avg_color) :
            /\ matched_color = COLOR_RANGES[k].code
            /\ \A j \in InRangeSet(avg_color) :
                   LET score_k == Score(avg_color, COLOR_RANGES[k])
                       score_j == Score(avg_color, COLOR_RANGES[j])
                   IN  /\ ~ScoreGreater(score_j, score_k)
                       /\ (~ScoreGreater(score_k, score_j) => k <= j)
            /\ \A j \in DOMAIN COLOR_RANGES :
                   InRangeSet(avg_color) = {j}
                       => matched_color = COLOR_RANGES[j].code

\* A sample inside the ranges of both R and L was classified as L, the later
\* and better scoring of the two.
C8_Witness ==
    /\ cls_pc = "matched"
    /\ InRange(avg_color, RangeOf("R"))
    /\ InRange(avg_color, RangeOf("L"))
    /\ matched_color = "L"

\* C9: whenever fix_color_distribution triggers its repair, no symbol occurs
\* more than 5 times in the returned face, the symbols that received the
\* replaced stickers included.
C9_AtMostFive ==
    (face_pc = "fixed" /\ Triggered(face_in)) =>
        \A c \in Colors : CountOf(face_out, c) <= 5

\* A face of seven and two: the colour that had two received three more and
\* holds five.
C9_Witness ==
    /\ face_pc = "fixed"
    /\ MaxCount(face_in) = 7
    /\ \E c \in Colors : CountOf(face_in, c) = 2 /\ CountOf(face_out, c) = 5
    /\ MaxCount(face_out) = 5

\* The hue arcs of the saturation regime of s (none at s = 120 and below 41)
RegimeArcs(s) ==
    IF 40 < s /\ s < 120 THEN MediumArcs
    ELSE IF s > 120 THEN HighArcs
    ELSE <<>>

====
